---- MODULE Spec2Model ----
(***************************************************************************)
(* backoff_sequence (src/src/lib.rs): the builder BackoffSequence and the  *)
(* iterator BackoffSequenceIterator it hands out.                          *)
(*                                                                         *)
(* Counters and values are Rust u64.  A u64 is kept here as four 16-bit    *)
(* limbs, most significant first, so that the full 64-bit range and the    *)
(* overflow checks of the arithmetic are represented exactly.  Arithmetic  *)
(* that leaves the range is a panic ("arithmetic operation overflowed",    *)
(* the build the repository's tests run under, lib.rs:232).                *)
(***************************************************************************)
EXTENDS Integers, Sequences, FiniteSets, TLC

VARIABLES calculator, config, engines, fault, builder_calls

vars == <<calculator, config, engines, fault, builder_calls>>

---------------------------------------------------------------------------
(* Bounds of the model. *)

\* length of a tabulated growth function (it is constant after its table)
TableLen == 3
\* largest value of a tabulated growth function and of the bounds set on it
MaxVal == 3
\* largest max_iterations given to a tabulated growth function
MaxN == 3
\* next() calls per engine over a tabulated growth function
MaxCalls == 5
\* next() calls per engine over one of the arithmetic growth functions
MaxArithCalls == 16
\* next() calls on an engine that is pulled until the growth function overflows
MaxPulls == 65
\* engines created by iter() in one behaviour
MaxEngines == 2
\* builder calls (max_iterations, min, max) before the one engine is made
MaxBuilderCalls == 3
\* builder calls on a builder shared between engines
MaxSharedBuilderCalls == 2
\* next() calls per engine of a shared builder
MaxSharedCalls == 3

---------------------------------------------------------------------------
(* Option<T>: None, Some(x). *)

None == <<>>
Some(x) == <<x>>
IsSome(o) == o # <<>>
Unwrap(o) == o[1]

---------------------------------------------------------------------------
(* u64 *)

LimbBase == 65536

U64Zero == <<0, 0, 0, 0>>
U64One == <<0, 0, 0, 1>>
U64Max == <<LimbBase - 1, LimbBase - 1, LimbBase - 1, LimbBase - 1>>

\* the u64 of a natural number below 2^31
U64(n) == <<0, 0, n \div LimbBase, n % LimbBase>>

\* the natural number of a u64 below 2^31
Nat32(x) == x[3] * LimbBase + x[4]

\* u64 as PartialOrd: a < b, by the most significant limb that differs
Less(a, b) ==
  IF a[1] # b[1] THEN a[1] < b[1]
  ELSE IF a[2] # b[2] THEN a[2] < b[2]
  ELSE IF a[3] # b[3] THEN a[3] < b[3]
  ELSE a[4] < b[4]

GreaterEq(a, b) == ~Less(a, b)
Greater(a, b) == Less(b, a)

\* B: PartialOrd, for the value types B the growth functions of the model
\* return: u64, and Option<u64> with Rust's ordering of Option (None below
\* every Some, two Some by their values)
IsU64(v) == Len(v) = 4

Lt(a, b) ==
  IF IsU64(a) THEN Less(a, b)
  ELSE IF a = None THEN b # None
  ELSE b # None /\ Less(Unwrap(a), Unwrap(b))

Ge(a, b) == ~Lt(a, b)
Gt(a, b) == Lt(b, a)

\* a result of checked arithmetic: a value, or the overflow panic
Ok(v) == [ok |-> TRUE, val |-> v]
Overflow == [ok |-> FALSE, val |-> U64Zero]

\* a + b, limb by limb from the least significant, with the carry
CheckedAdd(a, b) ==
  LET s4 == a[4] + b[4]
      s3 == a[3] + b[3] + (s4 \div LimbBase)
      s2 == a[2] + b[2] + (s3 \div LimbBase)
      s1 == a[1] + b[1] + (s2 \div LimbBase)
  IN  IF s1 < LimbBase
      THEN Ok(<<s1, s2 % LimbBase, s3 % LimbBase, s4 % LimbBase>>)
      ELSE Overflow

\* a - b, limb by limb from the least significant, with the borrow
CheckedSub(a, b) ==
  LET d4 == a[4] - b[4]
      d3 == a[3] - b[3] - (IF d4 < 0 THEN 1 ELSE 0)
      d2 == a[2] - b[2] - (IF d3 < 0 THEN 1 ELSE 0)
      d1 == a[1] - b[1] - (IF d2 < 0 THEN 1 ELSE 0)
  IN  IF d1 >= 0
      THEN Ok(<<d1, d2 % LimbBase, d3 % LimbBase, d4 % LimbBase>>)
      ELSE Overflow

\* a * k for a factor k of at most 9 bits
MulByte(a, k) ==
  LET p4 == a[4] * k
      p3 == a[3] * k + (p4 \div LimbBase)
      p2 == a[2] * k + (p3 \div LimbBase)
      p1 == a[1] * k + (p2 \div LimbBase)
  IN  IF p1 < LimbBase
      THEN Ok(<<p1, p2 % LimbBase, p3 % LimbBase, p4 % LimbBase>>)
      ELSE Overflow

\* x + y for two results: a panic when one of them is, or the sum is no u64
AddResults(x, y) ==
  IF x.ok /\ y.ok THEN CheckedAdd(x.val, y.val) ELSE Overflow

\* x * k for a result x
MulByteResult(x, k) == IF x.ok THEN MulByte(x.val, k) ELSE Overflow

\* a * k for one limb k, by its two bytes: (a * hi) * 256 + a * lo
MulLimb(a, k) ==
  AddResults(MulByteResult(MulByte(a, k \div 256), 256), MulByte(a, k % 256))

\* x * 2^16 for a result x
ShiftLimb(x) ==
  IF x.ok /\ x.val[1] = 0
  THEN Ok(<<x.val[2], x.val[3], x.val[4], 0>>)
  ELSE Overflow

\* acc * 2^16 + a * k
MulStep(acc, a, k) == AddResults(ShiftLimb(acc), MulLimb(a, k))

\* a * b, by the limbs of b from the most significant
MulLimbs(a, b) ==
  MulStep(MulStep(MulStep(MulStep(Ok(U64Zero), a, b[1]), a, b[2]), a, b[3]), a, b[4])

\* a product that stays at the largest u64 instead of panicking
SaturatingMul(a, b) ==
  LET p == MulLimbs(a, b)
  IN  IF p.ok THEN p ELSE Ok(U64Max)

\* a * b on u64: a panic when the product is no u64
CheckedMul(a, b) == MulLimbs(a, b)

\* x as u32: the low 32 bits
AsU32(x) == <<0, 0, x[3], x[4]>>

\* exp / 2 and exp & 1 of a u32
Half(exp) == <<0, 0, exp[3] \div 2, (exp[4] \div 2) + (exp[3] % 2) * (LimbBase \div 2)>>
IsOdd(exp) == exp[4] % 2 = 1

\* the loop of u64::pow: while exp > 1 { if exp & 1 == 1 { acc = acc * base }
\* exp /= 2; base = base * base }  acc * base.  base and acc are results: a
\* product that was no u64 has panicked
RECURSIVE PowLoop(_, _, _)
PowLoop(base, acc, exp) ==
  IF ~(base.ok /\ acc.ok) THEN Overflow
  ELSE IF ~Less(U64One, exp) THEN CheckedMul(acc.val, base.val)
  ELSE PowLoop(CheckedMul(base.val, base.val),
               IF IsOdd(exp) THEN CheckedMul(acc.val, base.val) ELSE acc,
               Half(exp))

\* base.pow(exp), exp a u32: a panic when a product of the loop is no u64
CheckedPow(base, exp) ==
  IF exp = U64Zero THEN Ok(U64One) ELSE PowLoop(Ok(base), Ok(U64One), exp)

\* p - 1 for a result p
SubOne(p) == IF p.ok THEN CheckedSub(p.val, U64One) ELSE Overflow

---------------------------------------------------------------------------
(* Growth functions F: Fn(u64) -> u64, borrowed by the builder and by every *)
(* engine.  A growth function is a record; Calc applies it.                 *)

\* a user-supplied function given by its first TableLen values; it stays at
\* the last of them afterwards (|_| 0 of the tests is the table of zeros)
Table(tab) == [kind |-> "table", base |-> 0, tab |-> tab]
\* a user-supplied function with B = Option<u64>, given the same way: its
\* values are None and Some(v)
Optional(tab) == [kind |-> "optional", base |-> 0, tab |-> tab]
\* |x| base.pow(x as u32) - 1
Exp(base) == [kind |-> "exp", base |-> base, tab |-> <<>>]
\* |x| x * 2
Double == [kind |-> "double", base |-> 2, tab |-> <<>>]

base_2_exp_calculator == Exp(2)
base_10_exp_calculator == Exp(10)

TableCalculators == {Table(t) : t \in [1..TableLen -> 0..MaxVal]}
ArithCalculators == {base_2_exp_calculator, base_10_exp_calculator, Double}
Calculators == TableCalculators \cup ArithCalculators

\* the value of a tabulated function at index x
TableAt(tab, x) ==
  IF x = U64Zero THEN U64Zero
  ELSE IF Less(x, U64(Len(tab))) THEN U64(tab[Nat32(x)])
  ELSE U64(tab[Len(tab)])

\* the value of a tabulated Option<u64> function at index x
OptionalAt(tab, x) ==
  IF x = U64Zero THEN None
  ELSE IF Less(x, U64(Len(tab))) THEN tab[Nat32(x)]
  ELSE tab[Len(tab)]

\* (self.calculator)(x): the value, or the overflow panic
Calc(c, x) ==
  IF c.kind = "table" THEN Ok(TableAt(c.tab, x))
  ELSE IF c.kind = "optional" THEN Ok(OptionalAt(c.tab, x))
  ELSE IF c.kind = "exp" THEN SubOne(CheckedPow(U64(c.base), AsU32(x)))
  ELSE CheckedMul(x, U64(2))

\* Calc(c, y) = Calc(c, x) for every index y >= x: the function keeps one
\* value from index x on
Stationary(c, x) ==
  c.kind \in {"table", "optional"} /\ GreaterEq(x, U64(Len(c.tab)))

---------------------------------------------------------------------------
(* BackoffSequence: the builder. *)

\* BackoffSequence::new
new == [max_iterations |-> None, min_value |-> None, max_value |-> None]

max_iterations(cfg, x) == [cfg EXCEPT !.max_iterations = Some(x)]
\* min writing the field of max: the value lands in max_value
min_into_max(cfg, x) == [cfg EXCEPT !.max_value = Some(x)]

min(cfg, x) == [cfg EXCEPT !.min_value = Some(x)]
max(cfg, x) == [cfg EXCEPT !.max_value = Some(x)]

\* an engine whose cursor starts at 1: the first index asked would be 2
iter_cursor_one(cfg) ==
  [iteration |-> U64One,
   max_iterations |-> cfg.max_iterations,
   current_value |-> None,
   max_value |-> cfg.max_value,
   min_value |-> cfg.min_value,
   made_from |-> cfg,
   returned |-> <<>>,
   evals |-> <<>>,
   evals_span |-> None,
   returned_span |-> None]

\* BackoffSequence::iter (and into_iter, which calls it): the fields of the
\* iterator, and with them what the model records about it: the snapshot of
\* the builder it was made from, what its next() calls returned, and the
\* indices its calls evaluated the growth function at, in order (evals; when
\* evals_span is Some, every index of that range was asked too, between the
\* last two entries of evals; when returned_span is Some, that many more
\* calls returned its value, between the last two entries of returned)
iter(cfg) ==
  [iteration |-> U64Zero,
   max_iterations |-> cfg.max_iterations,
   current_value |-> None,
   max_value |-> cfg.max_value,
   min_value |-> cfg.min_value,
   made_from |-> cfg,
   returned |-> <<>>,
   evals |-> <<>>,
   evals_span |-> None,
   returned_span |-> None]

---------------------------------------------------------------------------
(* BackoffSequenceIterator::next *)

NoFault == "none"
CalculatorOverflow == "calculator overflow"
CounterOverflow == "counter overflow"

\* the count compared with > instead of >=: one call too many
ExhaustedLate(e) ==
  /\ IsSome(e.max_iterations)
  /\ Greater(e.iteration, Unwrap(e.max_iterations))

\* lines 109-113: the iteration count is used up
Exhausted(e) ==
  /\ IsSome(e.max_iterations)
  /\ GreaterEq(e.iteration, Unwrap(e.max_iterations))

\* no short-circuit: the growth function is asked at every step
SaturatedNever(e) == FALSE

\* the guard with > instead of >=: a stored value equal to the maximum does
\* not short-circuit
SaturatedStrict(e) ==
  /\ IsSome(e.current_value)
  /\ IsSome(e.max_value)
  /\ Gt(Unwrap(e.current_value), Unwrap(e.max_value))

\* lines 118-119: the value of the last step is already the maximum
Saturated(e) ==
  /\ IsSome(e.current_value)
  /\ IsSome(e.max_value)
  /\ Ge(Unwrap(e.current_value), Unwrap(e.max_value))

\* no skip: the first candidate is taken whatever min_value
MinSkipNone(c, minv, it, cur, evals) ==
  [fault |-> NoFault, iter |-> it, cur |-> cur, evals |-> evals, span |-> None]

\* the loop of lines 132-135 ended by a panic
SkipFault(kind, it, evals) ==
  [fault |-> kind, iter |-> it, cur |-> U64Zero, evals |-> evals, span |-> None]

\* the indices from..to, or None when from > to
Span(from, to) ==
  IF Greater(from, to) THEN None ELSE Some([from |-> from, to |-> to])

\* lines 132-135 with cur < min at an index it from which the function keeps
\* its value: the condition of line 132 holds at every later index as well,
\* so the body runs for each of n .. u64::MAX (n = it + 1), asking the
\* function at each, and iter += 1 of line 133 panics with iter at u64::MAX.
\* These iterations are taken in one step: the last index asked, u64::MAX,
\* is appended to evals and the indices before it are recorded as a span.
MinSkipRun(it, n, evals) ==
  IF n.ok
  THEN [fault |-> CounterOverflow, iter |-> U64Max, cur |-> U64Zero,
        evals |-> Append(evals, U64Max),
        span |-> Span(n.val, CheckedSub(U64Max, U64One).val)]
  ELSE SkipFault(CounterOverflow, it, evals)

\* lines 132-135: while cur < min { iter += 1; cur = calculator(iter) }
RECURSIVE MinSkip(_, _, _, _, _)

\* line 134, cur = (self.calculator)(iter) with result v: a panic, or the
\* loop goes on with the value
MinSkipCalled(c, minv, it, v, evals) ==
  IF v.ok THEN MinSkip(c, minv, it, v.val, Append(evals, it))
  ELSE SkipFault(CalculatorOverflow, it, Append(evals, it))

\* line 133, iter += 1 with result n: a panic, or the function is asked at n
MinSkipNext(c, minv, it, n, evals) ==
  IF n.ok THEN MinSkipCalled(c, minv, n.val, Calc(c, n.val), evals)
  ELSE SkipFault(CounterOverflow, it, evals)

MinSkip(c, minv, it, cur, evals) ==
  IF ~Lt(cur, minv)
  THEN [fault |-> NoFault, iter |-> it, cur |-> cur, evals |-> evals, span |-> None]
  ELSE IF Stationary(c, it) THEN MinSkipRun(it, CheckedAdd(it, U64One), evals)
  ELSE MinSkipNext(c, minv, it, CheckedAdd(it, U64One), evals)

\* the comparison turned round: a value below the maximum is replaced
ClampBelow(new_value, max_value) ==
  IF IsSome(max_value) /\ Lt(new_value, Unwrap(max_value))
  THEN max_value
  ELSE Some(new_value)

\* the new value stored whatever the maximum
ClampNever(new_value, max_value) == Some(new_value)

\* lines 147-153: the new value, or the maximum when it exceeds the maximum
Clamp(new_value, max_value) ==
  IF IsSome(max_value) /\ Gt(new_value, Unwrap(max_value))
  THEN max_value
  ELSE Some(new_value)

\* a call that panicked: nothing of the engine is observable afterwards
Panic(e, kind, evals) ==
  [fault |-> kind, eng |-> [e EXCEPT !.evals = evals]]

\* a call that returned ret
Return(e, ret, evals) ==
  [fault |-> NoFault,
   eng |-> [e EXCEPT !.returned = Append(@, ret), !.evals = evals]]

\* line 138: mi + (iter - self.iteration), when max_iterations is set
RaisedCount(e, delta) ==
  IF IsSome(e.max_iterations)
  THEN AddResults(Ok(Unwrap(e.max_iterations)), delta)
  ELSE Ok(U64Zero)

\* line 141 left out: the cursor is not moved to the index the loop found
SkipDoneCursorKept(e, s, mi, cv) ==
  IF ~mi.ok THEN Panic(e, CounterOverflow, s.evals)
  ELSE Return([e EXCEPT !.max_iterations = IF IsSome(@) THEN Some(mi.val) ELSE @,
                        !.min_value = None,
                        !.current_value = cv],
              cv, s.evals)

\* line 144 left out: min_value stays set and is applied by every call
SkipDoneKeepsMin(e, s, mi, cv) ==
  IF ~mi.ok THEN Panic(e, CounterOverflow, s.evals)
  ELSE Return([e EXCEPT !.max_iterations = IF IsSome(@) THEN Some(mi.val) ELSE @,
                        !.iteration = s.iter,
                        !.current_value = cv],
              cv, s.evals)

\* lines 137-155 after the loop ended in s without a panic: max_iterations
\* becomes mi, the cursor the loop's index, min_value None, and the clamped
\* value cv is stored and returned
SkipDone(e, s, mi, cv) ==
  IF ~mi.ok THEN Panic(e, CounterOverflow, s.evals)
  ELSE Return([e EXCEPT !.max_iterations = IF IsSome(@) THEN Some(mi.val) ELSE @,
                        !.iteration = s.iter,
                        !.min_value = None,
                        !.current_value = cv],
              cv, s.evals)

\* lines 137-155 after the loop, whose outcome is s
AfterSkip(e, s) ==
  IF s.fault # NoFault
  THEN Panic([e EXCEPT !.evals_span = s.span], s.fault, s.evals)
  ELSE SkipDone(e, s, RaisedCount(e, CheckedSub(s.iter, e.iteration)),
                Clamp(s.cur, e.max_value))

\* lines 147-155 without a min_value: the clamped value cv is stored and
\* returned
Store(e, cv, evals) == Return([e EXCEPT !.current_value = cv], cv, evals)

\* lines 127-155, after new_value = calculator(iteration): the min-skip when
\* min_value is set, then the clamp
AfterCalc(c, e, new_value, evals) ==
  IF IsSome(e.min_value)
  THEN AfterSkip(e, MinSkip(c, Unwrap(e.min_value), e.iteration, new_value, evals))
  ELSE Store(e, Clamp(new_value, e.max_value), evals)

\* line 123 with the calculator's result v: its panic, or lines 127-155
Called(c, e, v, evals) ==
  IF v.ok THEN AfterCalc(c, e, v.val, evals)
  ELSE Panic(e, CalculatorOverflow, evals)

\* lines 118-123 on the engine with the cursor advanced: the short-circuit,
\* or the calculator is asked at the cursor
Advanced(c, e) ==
  IF Saturated(e) THEN Return(e, e.max_value, e.evals)
  ELSE Called(c, e, Calc(c, e.iteration), Append(e.evals, e.iteration))

\* line 115, self.iteration += 1 with result inc
Increment(c, e, inc) ==
  IF inc.ok THEN Advanced(c, [e EXCEPT !.iteration = inc.val])
  ELSE Panic(e, CounterOverflow, e.evals)

\* the cursor advanced before the count is looked at: an exhausted engine
\* still counts its calls
next_recounting(c, e) ==
  IF Exhausted(e)
  THEN Return([e EXCEPT !.iteration = CheckedAdd(@, U64One).val], None, e.evals)
  ELSE Increment(c, e, CheckedAdd(e.iteration, U64One))

\* next(&mut self) on engine e over growth function c
next(c, e) ==
  IF Exhausted(e) THEN Return(e, None, e.evals)
  ELSE Increment(c, e, CheckedAdd(e.iteration, U64One))

\* the engine is at line 109 without max_iterations and with its value
\* pinned at max_value, and stays so for every call that brings the cursor
\* up to target
PinnedUpTo(e, target) ==
  /\ e.max_iterations = None
  /\ Saturated(e)
  /\ Less(e.iteration, target)

\* next() called on a pinned engine e without max_iterations until its cursor is at target: each of
\* these calls finds the count not reached (lines 109-113), adds one to the
\* cursor (line 115) and returns max_value at line 119, leaving every other
\* field as it is.  The engine after these calls: the last of them is
\* appended to returned, the ones before it are counted in returned_span.
next_run(e, target) ==
  [e EXCEPT !.iteration = target,
            !.returned = Append(@, e.max_value),
            !.returned_span =
              Some([value |-> e.max_value,
                    calls |-> CheckedSub(CheckedSub(target, e.iteration).val,
                                         U64One).val])]

---------------------------------------------------------------------------
(* The caller: it builds one configuration over one growth function, asks  *)
(* it for engines and pulls values from them.  A panic ends the program.   *)

\* the arguments the caller gives to max_iterations()
IterationCounts(c) ==
  IF c.kind = "table"
  THEN {U64(n) : n \in 0..MaxN} \cup {U64Max}
  ELSE {U64(0), U64(1), U64(4), U64(10), U64(15)}

\* the arguments the caller gives to min() and max()
BoundValues(c) ==
  IF c.kind = "table"
  THEN {U64(v) : v \in 0..MaxVal}
  ELSE IF c = base_10_exp_calculator
  THEN {U64(10), U64(100), U64(150), U64(10000)}
  ELSE IF c = base_2_exp_calculator
  THEN {U64(5), U64(150), U64(1500)}
  ELSE {U64(5), U64(10), U64(20)}

\* the number of next() calls the caller makes on one engine
CallLimit(c) == IF c.kind = "table" THEN MaxCalls ELSE MaxArithCalls

\* next(&mut self): the call changes the engine it is made on
StoreEngine(engs, i, e) == [engs EXCEPT ![i] = e]

\* iter(&self): the builder after the call
BuilderAfterIter(cfg) == cfg

\* the builder's bounds written through by the engine, as if iter() had
\* handed out references to them
BuilderAfterNextShared(cfg, e) ==
  [cfg EXCEPT !.max_iterations = e.max_iterations, !.min_value = e.min_value]

\* next(&mut self) of an engine: the builder after the call (the engine
\* holds clones of the bounds, lines 51-55)
BuilderAfterNext(cfg, e) == cfg

\* the engines reading the builder's bounds, as if iter() had not cloned them
EnginesAfterBuildShared(engs, cfg) ==
  [i \in 1..Len(engs) |->
     [engs[i] EXCEPT !.max_iterations = cfg.max_iterations,
                     !.min_value = cfg.min_value,
                     !.max_value = cfg.max_value]]

\* max_iterations, min, max (&mut self) of the builder: the engines made
\* before the call, once the builder is cfg
EnginesAfterBuild(engs, cfg) == engs

\* the caller that shares one builder between engines: its growth functions,
\* the arguments of its builder calls
SharedCalculators == {Table(<<0, 2, 1>>), Table(<<1, 3, 0>>)}
SharedCounts == {U64(1), U64(3)}
SharedValues == {U64(2)}

Init ==
  /\ calculator \in Calculators
  /\ config = new
  /\ engines = <<>>
  /\ fault = NoFault
  /\ builder_calls = 0

InitShared ==
  /\ calculator \in SharedCalculators
  /\ config = new
  /\ engines = <<>>
  /\ fault = NoFault
  /\ builder_calls = 0

\* a builder call is possible: at most limit of them are made, and late says
\* whether one may follow iter()
CanBuild(limit, late) ==
  /\ fault = NoFault
  /\ builder_calls < limit
  /\ (late \/ engines = <<>>)

SetMaxIterations(limit, late, counts) ==
  /\ CanBuild(limit, late)
  /\ \E x \in counts :
       /\ config' = max_iterations(config, x)
       /\ engines' = EnginesAfterBuild(engines, max_iterations(config, x))
  /\ builder_calls' = builder_calls + 1
  /\ UNCHANGED <<calculator, fault>>

SetMin(limit, late, values) ==
  /\ CanBuild(limit, late)
  /\ \E x \in values :
       /\ config' = min(config, x)
       /\ engines' = EnginesAfterBuild(engines, min(config, x))
  /\ builder_calls' = builder_calls + 1
  /\ UNCHANGED <<calculator, fault>>

SetMax(limit, late, values) ==
  /\ CanBuild(limit, late)
  /\ \E x \in values :
       /\ config' = max(config, x)
       /\ engines' = EnginesAfterBuild(engines, max(config, x))
  /\ builder_calls' = builder_calls + 1
  /\ UNCHANGED <<calculator, fault>>

Iter(limit) ==
  /\ fault = NoFault
  /\ Len(engines) < limit
  /\ engines' = Append(engines, iter(config))
  /\ config' = BuilderAfterIter(config)
  /\ UNCHANGED <<calculator, fault, builder_calls>>

\* next() on engine i had the outcome r
Pulled(i, r) ==
  /\ engines' = StoreEngine(engines, i, r.eng)
  /\ fault' = r.fault
  /\ config' = BuilderAfterNext(config, r.eng)

Pull(limit) ==
  /\ fault = NoFault
  /\ \E i \in 1..Len(engines) :
       /\ Len(engines[i].returned) < limit
       /\ Pulled(i, next(calculator, engines[i]))
  /\ UNCHANGED <<calculator, builder_calls>>

\* one engine, configured before it is made
Next ==
  \/ SetMaxIterations(MaxBuilderCalls, FALSE, IterationCounts(calculator))
  \/ SetMin(MaxBuilderCalls, FALSE, BoundValues(calculator))
  \/ SetMax(MaxBuilderCalls, FALSE, BoundValues(calculator))
  \/ Iter(1)
  \/ Pull(CallLimit(calculator))

Spec == Init /\ [][Next]_vars

\* the caller that pulls without end: its growth functions and the count it
\* may set
UnboundedCalculators == {base_2_exp_calculator, base_10_exp_calculator}
LargeCounts == {U64(1000)}

InitUnbounded ==
  /\ calculator \in UnboundedCalculators
  /\ config = new
  /\ engines = <<>>
  /\ fault = NoFault
  /\ builder_calls = 0

\* one engine, pulled until the growth function overflows
NextUnbounded ==
  \/ SetMaxIterations(MaxBuilderCalls, FALSE, LargeCounts)
  \/ SetMin(MaxBuilderCalls, FALSE, BoundValues(calculator))
  \/ SetMax(MaxBuilderCalls, FALSE, BoundValues(calculator))
  \/ Iter(1)
  \/ Pull(MaxPulls)

SpecUnbounded == InitUnbounded /\ [][NextUnbounded]_vars

\* the caller that has pulled a pinned engine up to the end of the cursor's
\* range: the builders it made the engine from (max, or min and max), and
\* the cursors its calls have brought the engine to
LongRunConfigs(c) ==
  {max(new, M) : M \in BoundValues(c)}
    \cup {max(min(new, m), M) : m \in BoundValues(c), M \in BoundValues(c)}
LongRunTargets ==
  {CheckedSub(U64Max, U64(2)).val, CheckedSub(U64Max, U64One).val}

\* the first next() call on the engine made from cfg
FirstPulled(c, cfg) == next(c, iter(cfg))

\* the engines made from cfg whose first call pinned the value, after the
\* calls that brought the cursor to one of the targets
LongRunEngines(c, cfg) ==
  {next_run(FirstPulled(c, cfg).eng, target) :
     target \in {t \in LongRunTargets :
                   /\ FirstPulled(c, cfg).fault = NoFault
                   /\ PinnedUpTo(FirstPulled(c, cfg).eng, t)}}

\* the program after new, the builder calls, iter and that many next() calls
InitLongRun ==
  /\ calculator \in TableCalculators
  /\ config \in LongRunConfigs(calculator)
  /\ engines \in {<<e>> : e \in LongRunEngines(calculator, config)}
  /\ fault = NoFault
  /\ builder_calls = IF config.min_value = None THEN 1 ELSE 2

\* one engine, pulled call by call from there
NextLongRun == Pull(MaxCalls)

SpecLongRun == InitLongRun /\ [][NextLongRun]_vars

\* the caller whose growth function returns Option<u64>: its growth
\* functions, and the arguments it gives to min(), max() and max_iterations()
OptionalValues == {None, Some(U64(1)), Some(U64(2))}
OptionalCalculators == {Optional(t) : t \in [1..TableLen -> OptionalValues]}
OptionalCounts == {U64(n) : n \in 0..MaxN}

InitOptional ==
  /\ calculator \in OptionalCalculators
  /\ config = new
  /\ engines = <<>>
  /\ fault = NoFault
  /\ builder_calls = 0

\* one engine over a growth function of Option<u64>
NextOptional ==
  \/ SetMaxIterations(MaxBuilderCalls, FALSE, OptionalCounts)
  \/ SetMin(MaxBuilderCalls, FALSE, OptionalValues)
  \/ SetMax(MaxBuilderCalls, FALSE, OptionalValues)
  \/ Iter(1)
  \/ Pull(MaxCalls)

SpecOptional == InitOptional /\ [][NextOptional]_vars

\* several engines of one builder, which is changed between and after them
NextShared ==
  \/ SetMaxIterations(MaxSharedBuilderCalls, TRUE, SharedCounts)
  \/ SetMin(MaxSharedBuilderCalls, TRUE, SharedValues)
  \/ SetMax(MaxSharedBuilderCalls, TRUE, SharedValues)
  \/ Iter(MaxEngines)
  \/ Pull(MaxSharedCalls)

SpecShared == InitShared /\ [][NextShared]_vars

---------------------------------------------------------------------------
(* What the claims speak of. *)

\* the engines made so far
Engines == {engines[i] : i \in 1..Len(engines)}

\* the growth function of the behaviour at index k
F(k) == Calc(calculator, U64(k))

\* k <= n, for a small number k and a u64 n
AtMost(k, n) == ~Less(n, U64(k))

\* the smaller of two u64
Smaller(a, b) == IF Less(b, a) THEN b ELSE a

Last(q) == q[Len(q)]

\* the values an engine has emitted, in order
Emitted(e) ==
  LET q == SelectSeq(e.returned, IsSome)
  IN  [k \in 1..Len(q) |-> Unwrap(q[k])]

\* the indices 1..k as u64
Indices(k) == [j \in 1..k |-> U64(j)]

\* f(i) is a value and is at least m
Reaches(c, m, i) ==
  LET v == Calc(c, U64(i)) IN v.ok /\ GreaterEq(v.val, m)

\* an index by which a growth function has reached m if it ever does: the
\* table's length; 64 for base^i - 1, which is no u64 from there on; m + 1
\* for 2 * i
SearchLimit(c, m) ==
  IF c.kind = "table" THEN Len(c.tab)
  ELSE IF c.kind = "exp" THEN 64
  ELSE Nat32(m) + 1

\* the least index >= i with f(i) >= m; 0 when there is none
RECURSIVE FirstFrom(_, _, _)
FirstFrom(c, m, i) ==
  IF i > SearchLimit(c, m) THEN 0
  ELSE IF Reaches(c, m, i) THEN i
  ELSE FirstFrom(c, m, i + 1)

\* the least index >= 1 with f(i) >= m; 0 when there is none
FirstAtLeast(c, m) == FirstFrom(c, m, 1)

\* the bounds an engine was made with
CountOf(e) == Unwrap(e.made_from.max_iterations)
MinOf(e) == Unwrap(e.made_from.min_value)
MaxOf(e) == Unwrap(e.made_from.max_value)
HasCount(e) == IsSome(e.made_from.max_iterations)
HasMin(e) == IsSome(e.made_from.min_value)
HasMax(e) == IsSome(e.made_from.max_value)

\* the calls of e that returned, returned a value while fewer than n values
\* had been returned and None afterwards
CountPattern(e) ==
  \A k \in 1..Len(e.returned) : IsSome(e.returned[k]) <=> AtMost(k, CountOf(e))

\* why a call of e can have panicked: the growth function has no value at the
\* last index asked; or, in the first call, min_value is never reached, or
\* max_iterations plus the skipped indices is no u64
FaultCause(e) ==
  \/ /\ fault = CalculatorOverflow
     /\ e.evals # <<>>
     /\ ~Calc(calculator, Last(e.evals)).ok
  \/ /\ fault = CounterOverflow
     /\ e.returned = <<>>
     /\ HasMin(e)
     /\ LET s == FirstAtLeast(calculator, MinOf(e))
        IN  \/ s = 0
            \/ /\ s > 1
               /\ HasCount(e)
               /\ ~CheckedAdd(CountOf(e), U64(s - 1)).ok

---------------------------------------------------------------------------
(* C1 *)

\* C1, as stated: for every configuration with max_iterations = n (any growth
\* function, min_value and max_value set or unset) the next() calls on a
\* fresh engine return exactly n values and then None; no call panics.
C1_ExactlyN_AnyConfiguration ==
  \A e \in Engines :
    HasCount(e) => fault = NoFault /\ CountPattern(e)

\* C1, amended: with max_iterations = n, every next() call that returns,
\* returns a value while fewer than n values have been returned and None
\* afterwards; a call panics instead only when the growth function has no
\* u64 value at an index the call asks for, or, in the first call with
\* min_value set, when the growth function never reaches min_value or
\* max_iterations plus the number of skipped indices is no u64.
C1_ExactlyN_UnlessPanic ==
  \A e \in Engines :
    HasCount(e) => /\ CountPattern(e)
                   /\ fault # NoFault => FaultCause(e)

\* an engine with max_iterations = 3 that skipped an index for min_value,
\* returned three values and then None twice
C1_Witness ==
  \E e \in Engines :
    /\ HasCount(e) /\ CountOf(e) = U64(3)
    /\ HasMin(e) /\ Len(e.evals) > 3
    /\ Len(e.returned) = 5
    /\ IsSome(e.returned[3]) /\ e.returned[4] = None /\ e.returned[5] = None

---------------------------------------------------------------------------
(* C2 *)

\* C2: with max_iterations = n and neither min_value nor max_value set, the
\* k-th next() call returns f(k) for k = 1..n; the growth function is asked
\* at the indices 1, 2, 3, ... in order, never at 0, and a call panics only
\* where f(k) is no u64.
C2_KthValueIsFOfK ==
  \A e \in Engines :
    (HasCount(e) /\ ~HasMin(e) /\ ~HasMax(e)) =>
      /\ \A k \in 1..Len(e.returned) :
           AtMost(k, CountOf(e)) => F(k).ok /\ e.returned[k] = Some(F(k).val)
      /\ e.evals = Indices(Len(e.evals))
      /\ fault # NoFault =>
           /\ fault = CalculatorOverflow
           /\ ~F(Len(e.returned) + 1).ok

\* 2^i - 1 with max_iterations = 15 has returned the fifteen values of the
\* test; 2 * i with max_iterations = 10 its ten values
C2_Witness ==
  \E e \in Engines :
    /\ ~HasMin(e) /\ ~HasMax(e) /\ HasCount(e)
    /\ \/ /\ calculator = base_2_exp_calculator
          /\ CountOf(e) = U64(15)
          /\ Emitted(e) = <<U64(1), U64(3), U64(7), U64(15), U64(31), U64(63),
                            U64(127), U64(255), U64(511), U64(1023), U64(2047),
                            U64(4095), U64(8191), U64(16383), U64(32767)>>
       \/ /\ calculator = Double
          /\ CountOf(e) = U64(10)
          /\ Emitted(e) = <<U64(2), U64(4), U64(6), U64(8), U64(10), U64(12),
                            U64(14), U64(16), U64(18), U64(20)>>

---------------------------------------------------------------------------
(* C3 *)

\* the step is a next() call on engine i that returned a value
Emits(i) ==
  /\ i <= Len(engines)
  /\ Len(engines'[i].returned) = Len(engines[i].returned) + 1
  /\ IsSome(Last(engines'[i].returned))

\* the step is a next() call on engine i that asked the growth function
Asks(i) ==
  /\ i <= Len(engines)
  /\ Len(engines'[i].evals) > Len(engines[i].evals)

\* C3: when max_value is set, every value a next() call returns is at most
\* max_value; a call that asked the growth function returns max_value when
\* the candidate (the value at the last index asked) exceeds max_value and
\* the candidate itself when it does not.
C3_ClampToMax ==
  [][\A i \in 1..Len(engines') :
       (Emits(i) /\ IsSome(engines[i].max_value)) =>
         LET v == Unwrap(Last(engines'[i].returned))
             M == Unwrap(engines[i].max_value)
             cand == Calc(calculator, Last(engines'[i].evals)).val
         IN  /\ ~Greater(v, M)
             /\ Asks(i) => v = Smaller(cand, M)]_vars

\* 10^i - 1 with max 150 and max_iterations = 4 has returned 9, 99, 150, 150
C3_Witness ==
  \E e \in Engines :
    /\ calculator = base_10_exp_calculator
    /\ e.made_from = [max_iterations |-> Some(U64(4)), min_value |-> None,
                      max_value |-> Some(U64(150))]
    /\ Emitted(e) = <<U64(9), U64(99), U64(150), U64(150)>>

---------------------------------------------------------------------------
(* C4 *)

\* C4: once a next() call has returned max_value, every later call that
\* returns a value returns max_value, whatever the growth function is at the
\* later indices.
C4_SaturationIsPermanent ==
  \A e \in Engines :
    HasMax(e) =>
      LET em == Emitted(e)
      IN  \A j, k \in 1..Len(em) :
            (j < k /\ em[j] = MaxOf(e)) => em[k] = MaxOf(e)

\* an engine without min_value returned max_value at step k - 1 and again at
\* step k, where the growth function is below max_value
C4_Witness ==
  \E e \in Engines :
    /\ HasMax(e) /\ ~HasMin(e)
    /\ \E k \in 2..Len(Emitted(e)) :
         /\ Emitted(e)[k - 1] = MaxOf(e)
         /\ Emitted(e)[k] = MaxOf(e)
         /\ Less(F(k).val, MaxOf(e))

---------------------------------------------------------------------------
(* C5 *)

\* the least index at which the growth function reaches the min_value e was
\* made with; 0 when there is none
StartOf(e) == FirstAtLeast(calculator, MinOf(e))

NonDecreasing(c) ==
  c.kind = "table" => \A i \in 1..(Len(c.tab) - 1) : c.tab[i] <= c.tab[i + 1]

\* the k-th call of e returned f(s + k - 1), for every k up to the count of e
ReturnsFFrom(e, s) ==
  \A k \in 1..Len(e.returned) :
    AtMost(k, CountOf(e)) =>
      LET v == F(s + k - 1) IN v.ok /\ e.returned[k] = Some(v.val)

\* C5: with min_value = m set, max_value unset, max_iterations = n >= 1 and
\* a growth function that reaches m, first at index s: the k-th next() call
\* returns f(s + k - 1) for k = 1..n and the calls after the n-th return
\* None; a call panics only where f(s + k - 1) is no u64.
C5_MinSkipKeepsN ==
  \A e \in Engines :
    (HasCount(e) /\ HasMin(e) /\ ~HasMax(e) /\ AtMost(1, CountOf(e))) =>
      LET s == StartOf(e)
      IN  s > 0 =>
            /\ CountPattern(e)
            /\ ReturnsFFrom(e, s)
            /\ fault # NoFault =>
                 /\ fault = CalculatorOverflow
                 /\ ~F(s + Len(e.returned)).ok

\* the same for the counts n with n + s - 1 a u64 (not a claim: it tells
\* that the count is what C5 fails on)
C5_MinSkipKeepsN_CountInRange ==
  \A e \in Engines :
    (HasCount(e) /\ HasMin(e) /\ ~HasMax(e) /\ AtMost(1, CountOf(e))) =>
      LET s == StartOf(e)
      IN  (s > 0 /\ CheckedAdd(CountOf(e), U64(s - 1)).ok) =>
            /\ CountPattern(e)
            /\ ReturnsFFrom(e, s)
            /\ fault # NoFault =>
                 /\ fault = CalculatorOverflow
                 /\ ~F(s + Len(e.returned)).ok

\* 10^i - 1 with min 10 and max_iterations = 4 has returned 99, 999, 9999,
\* 99999 and then None
C5_TestReached ==
  \E e \in Engines :
    /\ calculator = base_10_exp_calculator
    /\ e.made_from = [max_iterations |-> Some(U64(4)), min_value |-> Some(U64(10)),
                      max_value |-> None]
    /\ e.returned = <<Some(U64(99)), Some(U64(999)), Some(U64(9999)),
                      Some(U64(99999)), None>>

---------------------------------------------------------------------------
(* C6 *)

\* the smaller of f(i) and M, f(i) counting as above M where it is no u64
ClampedF(i, M) == IF F(i).ok THEN Smaller(F(i).val, M) ELSE M

\* C6: with min_value = m and max_value = M set, m <= M, max_iterations = n
\* and a non-decreasing growth function that reaches m, first at index s:
\* the k-th value returned is the smaller of f(s + k - 1) and M.
C6_MinSkipThenClamp ==
  \A e \in Engines :
    (HasCount(e) /\ HasMin(e) /\ HasMax(e) /\ ~Less(MaxOf(e), MinOf(e))
       /\ NonDecreasing(calculator)) =>
      LET s == StartOf(e)
          em == Emitted(e)
      IN  s > 0 =>
            \A k \in 1..Len(em) : em[k] = ClampedF(s + k - 1, MaxOf(e))

\* 10^i - 1 with min 10, max 10000 and max_iterations = 4 has returned 99,
\* 999, 9999, 10000
C6_Witness ==
  \E e \in Engines :
    /\ calculator = base_10_exp_calculator
    /\ e.made_from = [max_iterations |-> Some(U64(4)), min_value |-> Some(U64(10)),
                      max_value |-> Some(U64(10000))]
    /\ Emitted(e) = <<U64(99), U64(999), U64(9999), U64(10000)>>

---------------------------------------------------------------------------
(* C7 *)

\* C7: when min_value > max_value and the growth function reaches min_value,
\* every value the engine returns, from the first on, is max_value.
C7_MinAboveMaxPinsToMax ==
  \A e \in Engines :
    (HasMin(e) /\ HasMax(e) /\ Greater(MinOf(e), MaxOf(e))) =>
      LET em == Emitted(e)
      IN  StartOf(e) > 0 => \A k \in 1..Len(em) : em[k] = MaxOf(e)

\* 10^i - 1 with min 10000, max 100 and max_iterations = 4 has returned 100
\* four times
C7_Witness ==
  \E e \in Engines :
    /\ calculator = base_10_exp_calculator
    /\ e.made_from = [max_iterations |-> Some(U64(4)),
                      min_value |-> Some(U64(10000)),
                      max_value |-> Some(U64(100))]
    /\ Emitted(e) = <<U64(100), U64(100), U64(100), U64(100)>>

---------------------------------------------------------------------------
(* C8 *)

\* the number of one bits of 2^k - 1 in limb j
OnesIn(k, j) ==
  LET low == 16 * (4 - j)
  IN  IF k <= low THEN 0 ELSE IF k >= low + 16 THEN 16 ELSE k - low

\* 2^k - 1 for k in 0..64, by its bits
AllOnes(k) ==
  <<2^OnesIn(k, 1) - 1, 2^OnesIn(k, 2) - 1, 2^OnesIn(k, 3) - 1, 2^OnesIn(k, 4) - 1>>

\* an engine over 2^i - 1 made with neither max_iterations nor max_value
Unbounded(e) ==
  /\ calculator = base_2_exp_calculator
  /\ ~HasCount(e)
  /\ ~HasMax(e)

\* the index of the first value of e
FirstIndex(e) == IF HasMin(e) THEN StartOf(e) ELSE 1

\* what an unbounded engine has returned is 2^i - 1 at consecutive indices
\* below 64, never None, and it has panicked only at index 64
NoWrappedValue(e) ==
  LET s == FirstIndex(e)
  IN  /\ \A k \in 1..Len(e.returned) :
           /\ s + k - 1 < 64
           /\ e.returned[k] = Some(AllOnes(s + k - 1))
      /\ fault # NoFault =>
           /\ fault = CalculatorOverflow
           /\ Last(e.evals) = U64(64)
           /\ s + Len(e.returned) = 64

\* C8: an engine over 2^i - 1 with max_iterations and max_value unset, as
\* long as it is pulled, returns 2^i - 1 exactly at consecutive indices and
\* never None; the call that asks index 64, where 2^i is no u64, panics with
\* the overflow and returns no value, so that at most 63 values are returned.
C8_OverflowFault ==
  \A e \in Engines : Unbounded(e) => NoWrappedValue(e)

\* the engine has returned the 63 values up to 2^63 - 1 and then panicked
C8_Witness ==
  \E e \in Engines :
    /\ Unbounded(e) /\ ~HasMin(e)
    /\ fault = CalculatorOverflow
    /\ Len(e.returned) = 63
    /\ e.returned[63] = Some(<<32767, 65535, 65535, 65535>>)

---------------------------------------------------------------------------
(* C9 *)

\* q is a prefix of r
IsPrefix(q, r) == Len(q) <= Len(r) /\ \A k \in 1..Len(q) : q[k] = r[k]

\* two engines made from equal bounds have returned the same, as far as both
\* have been pulled
SameFromTheStart(engs) ==
  \A i, j \in 1..Len(engs) :
    engs[i].made_from = engs[j].made_from =>
      \/ IsPrefix(engs[i].returned, engs[j].returned)
      \/ IsPrefix(engs[j].returned, engs[i].returned)

\* C9: a step that makes an engine (iter, into_iter) or pulls from one
\* (next, also one that skips for min_value, raises the engine's
\* max_iterations and clears its min_value) leaves the builder's
\* max_iterations, min_value and max_value as they are, and engines made
\* from the same bounds return the same sequence from the start, however
\* their calls interleave.
C9_IterLeavesBuilder ==
  [][/\ engines' # engines => config' = config
     /\ SameFromTheStart(engines')]_vars

\* two engines of one unchanged builder with min_value set, both past their
\* min-skip (max_iterations raised, min_value cleared), one pulled further
\* than the other
C9_Witness ==
  /\ Len(engines) = 2
  /\ engines[1].made_from = config
  /\ engines[2].made_from = config
  /\ IsSome(config.min_value) /\ IsSome(config.max_iterations)
  /\ engines[1].max_iterations # config.max_iterations
  /\ engines[2].max_iterations # config.max_iterations
  /\ engines[1].min_value = None
  /\ Len(engines[1].returned) = 1
  /\ Len(engines[2].returned) = 3

---------------------------------------------------------------------------
(* C10 *)

\* the step is a builder call
Builds == builder_calls' # builder_calls

\* the step is an iter() call
MakesEngine == Len(engines') = Len(engines) + 1

\* the engine after n next() calls on a fresh engine of cfg, none of which
\* panics
RECURSIVE Replay(_, _, _)
Replay(c, cfg, n) ==
  IF n = 0 THEN iter(cfg) ELSE next(c, Replay(c, cfg, n - 1)).eng

\* C10: a fresh engine has cursor 0, no current_value and the bounds the
\* builder has at the time of iter(); a later max_iterations, min or max
\* call on the builder changes no engine made before it, and every engine
\* goes on as an engine of its own snapshot pulled alone.
C10_EngineIsSnapshot ==
  [][/\ MakesEngine =>
          LET e == Last(engines')
          IN  /\ e.iteration = U64Zero
              /\ e.current_value = None
              /\ e.returned = <<>>
              /\ e.max_iterations = config.max_iterations
              /\ e.min_value = config.min_value
              /\ e.max_value = config.max_value
     /\ Builds => engines' = engines
     /\ fault' = NoFault =>
          \A i \in 1..Len(engines') :
            engines'[i] =
              Replay(calculator, engines'[i].made_from, Len(engines'[i].returned))]_vars

\* an engine made with min_value set and no max_value, whose builder has
\* since been given a max_value, has returned three values, one of them
\* above that max_value
C10_Witness ==
  \E e \in Engines :
    /\ HasMin(e) /\ ~HasMax(e)
    /\ IsSome(config.max_value)
    /\ Len(Emitted(e)) = 3
    /\ \E k \in 1..3 : Greater(Emitted(e)[k], Unwrap(config.max_value))

---------------------------------------------------------------------------
(* C11 *)

\* the step is a next() call on engine i: it has the outcome of next() on
\* that engine (a call that panics at line 115 changes no field of it)
Pulls(i) ==
  /\ i <= Len(engines)
  /\ fault = NoFault
  /\ Pulled(i, next(calculator, engines[i]))

\* engine e has returned None from its last call
Ended(e) == e.returned # <<>> /\ Last(e.returned) = None

\* C11: once next() has returned None, every later next() call on that
\* engine returns None, does not ask the growth function and leaves the
\* cursor, max_iterations, current_value, min_value and max_value as they
\* are.
C11_ExhaustionIsAbsorbing ==
  [][\A i \in 1..Len(engines') :
       (Pulls(i) /\ Ended(engines[i])) =>
         /\ fault' = NoFault
         /\ engines'[i] = [engines[i] EXCEPT !.returned = Append(@, None)]]_vars

\* an engine with max_iterations = 2 and max_value set returned two values,
\* the second one max_value, and then None three times
C11_Witness ==
  \E e \in Engines :
    /\ HasCount(e) /\ CountOf(e) = U64(2) /\ HasMax(e)
    /\ Len(e.returned) = 5
    /\ e.returned[2] = Some(MaxOf(e))
    /\ e.returned[3] = None /\ e.returned[4] = None /\ e.returned[5] = None

---------------------------------------------------------------------------
(* C12 *)

\* the next() call on a pinned engine e returns max_value without a panic,
\* asks the growth function at no index and leaves the engine pinned
StaysPinned(e, r) ==
  /\ r.fault = NoFault
  /\ Last(r.eng.returned) = e.max_value
  /\ r.eng.evals = e.evals
  /\ Saturated(r.eng)

\* C12: an engine ends by its count only.  Without max_iterations no call
\* returns None; with max_iterations = n only the calls after the n-th
\* return None; and as long as the count is not reached, the next() call on
\* an engine whose value is pinned at max_value returns max_value without a
\* panic and leaves the engine pinned, so that it goes on like that for as
\* long as it is pulled.
C12_EndsOnlyByCount ==
  \A e \in Engines :
    /\ \A k \in 1..Len(e.returned) :
         e.returned[k] = None => HasCount(e) /\ ~AtMost(k, CountOf(e))
    /\ (fault = NoFault /\ Saturated(e) /\ ~Exhausted(e)) =>
         StaysPinned(e, next(calculator, e))

\* C12, where the code leaves it: the cursor of an engine without
\* max_iterations, pinned at max_value, is at u64::MAX after 2^64 - 1 calls
\* that all returned max_value; the next call is the one that panics at
\* line 115
C12_TestReached ==
  \E e \in Engines :
    /\ fault = NoFault
    /\ ~HasCount(e) /\ Saturated(e)
    /\ e.iteration = U64Max
    /\ Last(e.returned) = e.max_value
    /\ next(calculator, e).fault = CounterOverflow

\* what holds of C12 in the code: the same, for every engine whose cursor
\* is below u64::MAX
C12_EndsOnlyByCount_BelowLastIndex ==
  \A e \in Engines :
    /\ \A k \in 1..Len(e.returned) :
         e.returned[k] = None => HasCount(e) /\ ~AtMost(k, CountOf(e))
    /\ (fault = NoFault /\ Saturated(e) /\ ~Exhausted(e)
          /\ Less(e.iteration, U64Max)) =>
         StaysPinned(e, next(calculator, e))

---------------------------------------------------------------------------
(* C13 *)

\* the growth function, of type Fn(u64) -> Option<u64>, has returned None at
\* an index engine e asked: it has reported that it has nothing to produce
ReportedNothing(e) ==
  /\ calculator.kind = "optional"
  /\ \E k \in 1..Len(e.evals) : Calc(calculator, e.evals[k]).val = None

\* C13: once the growth function has reported that it has nothing further
\* to produce, the engine stops like on exhaustion: the next() call in which
\* it did so returns None, and so does every later call.
C13_GrowthFunctionEndsSequence ==
  [][\A i \in 1..Len(engines') :
       (Pulls(i) /\ ReportedNothing(engines'[i])) =>
         /\ fault' = NoFault
         /\ Last(engines'[i].returned) = None]_vars

\* C13, where the code leaves it: over a growth function that is None from
\* index 2 on, an engine without bounds has returned Some(1) and then the
\* item None three times, none of these calls ending the sequence
C13_TestReached ==
  \E e \in Engines :
    /\ calculator = Optional(<<Some(U64(1)), None, None>>)
    /\ ~HasCount(e) /\ ~HasMin(e) /\ ~HasMax(e)
    /\ ReportedNothing(e)
    /\ e.returned = <<Some(Some(U64(1))), Some(None), Some(None), Some(None)>>

\* what holds of C13 in the code: a next() call returns None only when the
\* cursor has reached max_iterations, and then asks nothing; a value None of
\* the growth function is stored and handed out like any other value
C13_OnlyTheCountEndsSequence ==
  [][\A i \in 1..Len(engines') :
       (Pulls(i) /\ Len(engines'[i].returned) > Len(engines[i].returned)) =>
         /\ Last(engines'[i].returned) = None <=> Exhausted(engines[i])
         /\ Last(engines'[i].returned) = None =>
              engines'[i].evals = engines[i].evals
         /\ Last(engines'[i].returned) # None =>
              Last(engines'[i].returned) = engines'[i].current_value]_vars

---------------------------------------------------------------------------
(* C14 *)

\* a has the bounds of cfg
SameBounds(a, cfg, count, minimum, maximum) ==
  /\ count => a.max_iterations = cfg.max_iterations
  /\ minimum => a.min_value = cfg.min_value
  /\ maximum => a.max_value = cfg.max_value

\* on the builder cfg each of the three calls sets its own bound to the
\* value given and leaves the two others; a second call of the same kind
\* wins; and two calls of different kinds give the same builder in either
\* order
SettersOn(cfg, counts, values) ==
  /\ \A x \in counts :
       /\ max_iterations(cfg, x).max_iterations = Some(x)
       /\ SameBounds(max_iterations(cfg, x), cfg, FALSE, TRUE, TRUE)
       /\ \A y \in counts :
            max_iterations(max_iterations(cfg, x), y) = max_iterations(cfg, y)
  /\ \A v \in values :
       /\ min(cfg, v).min_value = Some(v)
       /\ SameBounds(min(cfg, v), cfg, TRUE, FALSE, TRUE)
       /\ max(cfg, v).max_value = Some(v)
       /\ SameBounds(max(cfg, v), cfg, TRUE, TRUE, FALSE)
       /\ \A w \in values :
            /\ min(min(cfg, v), w) = min(cfg, w)
            /\ max(max(cfg, v), w) = max(cfg, w)
            /\ min(max(cfg, v), w) = max(min(cfg, w), v)
       /\ \A x \in counts :
            /\ max_iterations(min(cfg, v), x) = min(max_iterations(cfg, x), v)
            /\ max_iterations(max(cfg, v), x) = max(max_iterations(cfg, x), v)

\* C14: new(f) gives a builder with max_iterations, min_value and max_value
\* unset; every builder call is one of max_iterations(x), min(v), max(v) on
\* the builder as it is and leaves the growth function; and on every builder
\* that can still be called, each call sets its own bound only, the last
\* call wins and the order of different calls does not matter.
C14_BuilderSetsOwnBound ==
  /\ (config.max_iterations = None /\ config.min_value = None
        /\ config.max_value = None)
  /\ [][Builds =>
          /\ calculator' = calculator
          /\ \/ \E x \in IterationCounts(calculator) :
                  config' = max_iterations(config, x)
             \/ \E v \in BoundValues(calculator) :
                  config' = min(config, v) \/ config' = max(config, v)]_vars
  /\ [](engines = <<>> =>
          SettersOn(config, IterationCounts(calculator), BoundValues(calculator)))

\* the builder of the test: min(5), max(1500) and a count, in three calls
C14_Witness ==
  /\ calculator = base_2_exp_calculator
  /\ builder_calls = 3
  /\ config = [max_iterations |-> Some(U64(15)), min_value |-> Some(U64(5)),
               max_value |-> Some(U64(1500))]

---------------------------------------------------------------------------
(* C15 *)

\* the next() call of the step on engine i, whose min_value is no longer
\* set, asked the growth function at no more than the one index after the
\* cursor, left max_iterations, and returned the candidate, clamped to
\* max_value, also when it is below the minimum the engine was made with
NoSecondSkip(i) ==
  /\ engines'[i].max_iterations = engines[i].max_iterations
  /\ engines'[i].min_value = None
  /\ Asks(i) =>
       /\ engines'[i].evals =
            Append(engines[i].evals, CheckedAdd(engines[i].iteration, U64One).val)
       /\ engines'[i].iteration = Last(engines'[i].evals)
       /\ Last(engines'[i].returned) =
            Clamp(Calc(calculator, Last(engines'[i].evals)).val, engines[i].max_value)

\* C15: the minimum is applied once.  The first next() call that returns a
\* value clears the engine's min_value, whether or not an index was skipped;
\* every later call that returns a value takes the candidate at the next
\* index as it is, also below the minimum, with no skip and no raise of
\* max_iterations.
C15_MinAppliedOnce ==
  [][\A i \in 1..Len(engines') :
       Emits(i) =>
         /\ engines'[i].min_value = None
         /\ IsSome(engines[i].min_value) <=>
              (HasMin(engines[i]) /\ Emitted(engines[i]) = <<>>)
         /\ engines[i].min_value = None => NoSecondSkip(i)]_vars

\* an engine made with min_value = 2 and no max_value over a growth function
\* that falls again has returned a value >= 2 first and a value below 2 later
C15_Witness ==
  \E e \in Engines :
    /\ HasMin(e) /\ MinOf(e) = U64(2) /\ ~HasMax(e)
    /\ e.min_value = None
    /\ Len(Emitted(e)) >= 2
    /\ GreaterEq(Emitted(e)[1], U64(2))
    /\ Less(Last(Emitted(e)), U64(2))

---------------------------------------------------------------------------
(* C16 *)

\* (engine max_iterations) - (engine cursor) = n - (values returned so far)
BudgetKept(e) ==
  LET left == CheckedSub(Unwrap(e.max_iterations), e.iteration)
      due == CheckedSub(CountOf(e), U64(Len(Emitted(e))))
  IN  left.ok /\ due.ok /\ left.val = due.val

\* the program has ended in a panic that the growth function accounts for:
\* it has no value at an index asked, or it never reaches min_value
GrowthFault(e) ==
  \/ fault = CalculatorOverflow
  \/ fault = CounterOverflow /\ HasMin(e) /\ StartOf(e) = 0

\* C16: for an engine made with max_iterations = n, in every state that a
\* panic of the growth function's making has not ended,
\* (engine max_iterations) - (engine cursor) = n - (values returned so far).
C16_BudgetInvariant ==
  \A e \in Engines :
    (HasCount(e) /\ ~GrowthFault(e)) => BudgetKept(e)

\* the same in the states that no panic has ended, and the step that keeps
\* it: a call that returns a value after skipping delta indices raises
\* max_iterations by delta and the cursor by delta + 1 (not a claim: it tells
\* that the panic of line 138 is what C16 fails on)
C16_BudgetKeptWhileNoPanic ==
  [][\A i \in 1..Len(engines') :
       (HasCount(engines'[i]) /\ fault' = NoFault) =>
         /\ BudgetKept(engines'[i])
         /\ (Emits(i) /\ Asks(i)) =>
              LET delta == Len(engines'[i].evals) - Len(engines[i].evals) - 1
              IN  /\ CheckedAdd(engines[i].max_iterations[1], U64(delta)) =
                       Ok(engines'[i].max_iterations[1])
                  /\ CheckedAdd(engines[i].iteration, U64(delta + 1)) =
                       Ok(engines'[i].iteration)]_vars

\* an engine with max_iterations = 3 skipped two indices in its first call,
\* which raised its max_iterations to 5, and has returned two values
C16_TestReached ==
  \E e \in Engines :
    /\ HasCount(e) /\ CountOf(e) = U64(3)
    /\ e.max_iterations = Some(U64(5))
    /\ e.iteration = U64(4)
    /\ Len(Emitted(e)) = 2

---------------------------------------------------------------------------
(* C17 *)

\* the growth function has been asked at 1, 2, ... and at no index after s
AskedUpTo(e, s) ==
  /\ e.evals = Indices(Len(e.evals))
  /\ Len(e.evals) <= s

\* C17: once the stored current_value is >= max_value, a next() call that
\* returns a value does not ask the growth function and advances the cursor
\* by one.  So with max_value set, min_value unset and a non-decreasing
\* growth function whose first value >= max_value is at index s, the
\* function is asked at 1..s at most and the engine does not panic, however
\* long it is pulled and wherever the function overflows after s.
C17_ShortCircuitAvoidsOverflow ==
  /\ [][\A i \in 1..Len(engines') :
          (Emits(i) /\ Saturated(engines[i])) =>
            /\ ~Asks(i)
            /\ Ok(engines'[i].iteration) = CheckedAdd(engines[i].iteration, U64One)
            /\ Saturated(engines'[i])]_vars
  /\ [](\A e \in Engines :
          (HasMax(e) /\ ~HasMin(e) /\ NonDecreasing(calculator)) =>
            LET s == FirstAtLeast(calculator, MaxOf(e))
            IN  s > 0 => AskedUpTo(e, s) /\ fault = NoFault)

\* 2^i - 1 with max 150 and no count, pulled 65 times: the function was
\* asked at 1..8 only and the cursor is at 65, past index 64 where 2^i is no
\* u64
C17_Witness ==
  \E e \in Engines :
    /\ calculator = base_2_exp_calculator
    /\ ~HasCount(e) /\ ~HasMin(e) /\ HasMax(e) /\ MaxOf(e) = U64(150)
    /\ e.evals = Indices(8)
    /\ e.iteration = U64(65)
    /\ Len(e.returned) = 65
    /\ fault = NoFault

---------------------------------------------------------------------------
(* C18 *)

\* e was made with min_value set and a count, if any, of at least 1, and its
\* first next() call has been made
FirstCallMade(e) ==
  /\ HasMin(e)
  /\ HasCount(e) => AtMost(1, CountOf(e))
  /\ e.evals # <<>>

\* the first call of e returned a value, having asked the growth function at
\* exactly 1..s and left the cursor at s
SkippedTo(e, s) ==
  /\ e.returned # <<>>
  /\ IsSome(e.returned[1])
  /\ Len(e.evals) >= s
  /\ SubSeq(e.evals, 1, s) = Indices(s)
  /\ Len(e.returned) = 1 => e.evals = Indices(s) /\ e.iteration = U64(s)

\* C18: with min_value set and the count not 0, the first next() call
\* returns whenever the growth function reaches min_value, first at index s
\* say; it asks the function at exactly 1..s and leaves the cursor at s,
\* also when min_value > max_value.
C18_FirstCallSkipsToS ==
  \A e \in Engines :
    FirstCallMade(e) =>
      LET s == StartOf(e) IN s > 0 => SkippedTo(e, s)

\* the same for the counts n with n + s - 1 a u64 (not a claim: it tells
\* that the count is what C18 fails on)
C18_FirstCallSkipsToS_CountInRange ==
  \A e \in Engines :
    FirstCallMade(e) =>
      LET s == StartOf(e)
      IN  (s > 0 /\ (HasCount(e) => CheckedAdd(CountOf(e), U64(s - 1)).ok)) =>
            SkippedTo(e, s)

\* 10^i - 1 with min 10000 and max 100: the first call asked 1..5, left the
\* cursor at 5 and returned 100
C18_TestReached ==
  \E e \in Engines :
    /\ calculator = base_10_exp_calculator
    /\ HasMin(e) /\ MinOf(e) = U64(10000)
    /\ HasMax(e) /\ MaxOf(e) = U64(100)
    /\ e.evals = Indices(5)
    /\ e.iteration = U64(5)
    /\ e.returned = <<Some(U64(100))>>

---------------------------------------------------------------------------
(* C19 *)

\* the growth function reaches the min_value e was made with, if any, so
\* that the skip has a distance
SkipEnds(e) == HasMin(e) => StartOf(e) > 0

\* C19: whatever max_iterations (up to the largest u64) and whatever the
\* distance of the min-skip, the engine's own additions (cursor + 1, local
\* index + 1, max_iterations + delta) stay in range: no call panics in them.
C19_CounterNeverOverflows ==
  \A e \in Engines :
    SkipEnds(e) => fault # CounterOverflow

\* the same for the counts n with n + s - 1 a u64 (not a claim: it tells
\* that max_iterations + delta is the addition that overflows)
C19_CounterNeverOverflows_CountInRange ==
  \A e \in Engines :
    (/\ SkipEnds(e)
     /\ (HasMin(e) /\ HasCount(e)) =>
          CheckedAdd(CountOf(e), U64(StartOf(e) - 1)).ok) =>
      fault # CounterOverflow

\* an engine with the largest max_iterations and a min_value that its first
\* candidate meets (nothing is skipped) has returned three values
C19_TestReached ==
  \E e \in Engines :
    /\ HasCount(e) /\ CountOf(e) = U64Max
    /\ HasMin(e) /\ StartOf(e) = 1
    /\ e.max_iterations = Some(U64Max)
    /\ Len(Emitted(e)) = 3

---------------------------------------------------------------------------
(* C20 *)

\* no value of the sequence is smaller than the one before it
Ascending(q) == \A k \in 1..(Len(q) - 1) : ~Less(q[k + 1], q[k])

\* C20: for a non-decreasing growth function the values an engine returns
\* are non-decreasing, whatever max_iterations, min_value and max_value
\* (min_value > max_value included).
C20_EmittedNonDecreasing ==
  \A e \in Engines :
    NonDecreasing(calculator) => Ascending(Emitted(e))

\* 2^i - 1 with min 5 and max 150 has returned 7, 15, 31, 63, 127, 150, 150
C20_Witness ==
  \E e \in Engines :
    /\ calculator = base_2_exp_calculator
    /\ HasMin(e) /\ MinOf(e) = U64(5)
    /\ HasMax(e) /\ MaxOf(e) = U64(150)
    /\ Emitted(e) = <<U64(7), U64(15), U64(31), U64(63), U64(127), U64(150),
                      U64(150)>>

====
